---------------------------- MODULE Spec2Model ----------------------------
(***************************************************************************)
(* Model of the EODEN search scripts (advanced_research.py and             *)
(* eoden_simple_prompt.py): the result selector, the three-way concurrent  *)
(* search of execute_optimized_prompt, the query variant generator and the *)
(* template resolver.                                                      *)
(***************************************************************************)
EXTENDS Integers, Sequences, FiniteSets, TLC

VARIABLES
    pc,             \* position of the main thread / of the called function
    responses,      \* the sequence handed to select_best_result
    best_response,  \* what select_best_result returned
    best_score,     \* the loop's best_score when select_best_result returned
    state,          \* per future: "new", "queued", "running", "finished"
    sent,           \* per future: number of client.search calls made for it
    result,         \* per future: what execute_single_search returned
    waiter,         \* futures in the order as_completed will yield them
    collected,      \* futures already yielded by as_completed, in order
    displayed,      \* the responses display_results was called on, in order
    report,         \* what execute_optimized_prompt printed last
    returned,       \* what execute_optimized_prompt returned
    base_query,     \* argument of create_optimized_queries
    prompt_type,    \* argument of create_optimized_queries
    queries,        \* what create_optimized_queries returned (or the raise)
    enriched_query, \* the enriched query it appended to its list (line 99)
    text,           \* argument of replace_template_variables
    template_dict,  \* config["template_dictionary"], in insertion order
    resolved,       \* what replace_template_variables returned
    resolved_again, \* what it returned for the returned text and the same dict
    script,         \* "advanced" (advanced_research.py) or "simple"
    prompts_file,   \* content of prompts_config.json
    config,         \* what load_prompts_config returned
    credentials,    \* state of the credential file config.json
    prompt_key,     \* the key handed to execute_optimized_prompt / execute_prompt
    prepared,       \* outcome of the lookup and of the system prompt construction
    choice,         \* the last line read by main, normalised, or the exception
    inputs,         \* number of input() calls made by main
    listed,         \* number of times the variable list was displayed
    issued,         \* number of search requests sent to the service
    struct_data,    \* doc.struct_data of a result document
    doc_name        \* the display name worked out for the document

vars == <<pc, responses, best_response, best_score, state, sent, result,
          waiter, collected, displayed, report, returned, base_query, prompt_type,
          queries, enriched_query, text, template_dict, resolved, resolved_again,
          script, prompts_file, config, credentials, prompt_key, prepared, choice, inputs,
          listed, issued, struct_data, doc_name>>

searchVars   == <<state, sent, result, waiter, collected, displayed, report,
                  returned>>
selectVars   == <<responses, best_response, best_score>>
queryVars    == <<base_query, prompt_type, queries, enriched_query>>
templateVars == <<text, template_dict, resolved, resolved_again>>
mainVars     == <<script, prompts_file, config, credentials, prompt_key, prepared, choice,
                  inputs, listed, issued>>
docVars      == <<struct_data, doc_name>>

-----------------------------------------------------------------------------
(* Bounds of the model *)

MaxResults   == 1   \* result documents of one response: 0..MaxResults
MaxCitations == 1   \* citations of one summary: 0..MaxCitations
MaxResponses == 3   \* length of the sequences handed to select_best_result
MaxQueryLen  == 3   \* symbols of a base query
MaxTextLen   == 6   \* characters of a template text

-----------------------------------------------------------------------------
(* Python values *)

None == [kind |-> "None"]

\* The value of returned while the function has not returned
NotReturned == [kind |-> "NotReturned"]

\* The variables of a part of the program a specification leaves idle
IdleSearch ==
    /\ state = <<>> /\ sent = <<>> /\ result = <<>>
    /\ waiter = <<>> /\ collected = <<>> /\ displayed = <<>> /\ report = ""
    /\ returned = NotReturned

IdleQuery ==
    /\ base_query = <<>> /\ prompt_type = "" /\ queries = None
    /\ enriched_query = <<>>

IdleDoc == struct_data = None /\ doc_name = <<>>

IdleTemplate ==
    /\ text = <<>> /\ template_dict = None
    /\ resolved = <<>> /\ resolved_again = <<>>

IdleSelect == responses = <<>> /\ best_response = None /\ best_score = 0

IdleMain ==
    /\ script = "" /\ prompts_file = None /\ config = None
    /\ credentials = "" /\ prompt_key = <<>>
    /\ prepared = None /\ choice = None
    /\ inputs = 0 /\ listed = 0 /\ issued = 0

\* Sequences over S of length at most n
SeqUpTo(S, n) == UNION {[1..k -> S] : k \in 0..n}

(* Strings are sequences of symbols.  In template texts a symbol is one    *)
(* character.  In queries a symbol is one word, one blank, or one fixed    *)
(* phrase of the per-category tables (accents are written without          *)
(* diacritics).                                                            *)

\* sub in s
Contains(s, sub) ==
    \E i \in 1..(Len(s) - Len(sub) + 1) : SubSeq(s, i, i + Len(sub) - 1) = sub

\* s.replace(old, new): every non-overlapping occurrence, left to right,
\* with no re-scan of what was inserted (old is never empty here)
RECURSIVE Replace(_, _, _)
Replace(s, old, new) ==
    IF Len(s) < Len(old) THEN s
    ELSE IF SubSeq(s, 1, Len(old)) = old
         THEN new \o Replace(SubSeq(s, Len(old) + 1, Len(s)), old, new)
         ELSE <<Head(s)>> \o Replace(Tail(s), old, new)

\* The letters that lines typed at the prompt, and prompt keys, are made of
SmallLetters   == <<"a", "c", "e", "i", "l", "o", "p", "q", "s", "t", "u", "x", "z">>
CapitalLetters == <<"A", "C", "E", "I", "L", "O", "P", "Q", "S", "T", "U", "X", "Z">>

IndexIn(c, letters) == CHOOSE i \in DOMAIN letters : letters[i] = c

IsIn(c, letters) == \E i \in DOMAIN letters : letters[i] = c

\* str.lower() of one symbol
LowerSym(c) ==
    CASE c = "Marge"       -> "marge"
      [] c = "EODEN"       -> "eoden"
      [] c = "Reno Energy" -> "reno energy"
      [] OTHER             -> IF IsIn(c, CapitalLetters)
                              THEN SmallLetters[IndexIn(c, CapitalLetters)]
                              ELSE c

\* str.upper() of one character
UpperSym(c) == IF IsIn(c, SmallLetters)
               THEN CapitalLetters[IndexIn(c, SmallLetters)]
               ELSE c

\* s.upper()
Upper(s) == [i \in 1..Len(s) |-> UpperSym(s[i])]

\* s.lower()
Lower(s) == [i \in 1..Len(s) |-> LowerSym(s[i])]

IsSpace(c) == c = " "

\* s.lstrip()
RECURSIVE LStrip(_)
LStrip(s) == IF s # <<>> /\ IsSpace(Head(s)) THEN LStrip(Tail(s)) ELSE s

\* s.rstrip()
RECURSIVE RStrip(_)
RStrip(s) == IF s # <<>> /\ IsSpace(s[Len(s)])
             THEN RStrip(SubSeq(s, 1, Len(s) - 1)) ELSE s

\* s.strip()
Strip(s) == RStrip(LStrip(s))

\* s.split(): the maximal runs of non-blank symbols
RECURSIVE SplitFrom(_, _)
SplitFrom(s, cur) ==
    IF s = <<>> THEN (IF cur = <<>> THEN <<>> ELSE <<cur>>)
    ELSE IF IsSpace(Head(s))
         THEN (IF cur = <<>> THEN <<>> ELSE <<cur>>) \o SplitFrom(Tail(s), <<>>)
         ELSE SplitFrom(Tail(s), Append(cur, Head(s)))

Split(s) == SplitFrom(s, <<>>)

-----------------------------------------------------------------------------
(* The search response of the external service, as select_best_result      *)
(* reads it: results, summary, summary.summary_text,                       *)
(* summary.summary_with_metadata.citations.                                *)

Metadatas == {None} \cup [kind : {"Metadata"}, citations : 0..MaxCitations]

Summaries == {None} \cup [kind : {"Summary"},
                          summary_text : {"", "txt"},
                          summary_with_metadata : Metadatas]

\* The responses a search can return for the request (or sequence slot) id
SearchResponses(id) == [kind : {"SearchResponse"}, id : {id},
                        results : 0..MaxResults, summary : Summaries]

-----------------------------------------------------------------------------
(* select_best_result *)

WeightResult   == 2
WeightSummary  == 50
WeightCitation == 10

\* Variant: best_score starts below every score
InitialBestScore_mutant_below_zero == 0 - 1

\* best_score = 0
InitialBestScore == 0

\* has_summary
has_summary(response) ==
    /\ response.summary # None
    /\ response.summary.summary_text # ""

\* citation_count
citation_count(response) ==
    IF response.summary # None
    THEN IF response.summary.summary_with_metadata # None
         THEN response.summary.summary_with_metadata.citations
         ELSE 0
    ELSE 0

\* Variant: the citations are left out of the score
score_mutant_no_citations(response) ==
    response.results * WeightResult
      + (IF has_summary(response) THEN WeightSummary ELSE 0)

\* score = result_count * 2 + (50 if has_summary else 0) + citation_count * 10
score(response) ==
    response.results * WeightResult
      + (IF has_summary(response) THEN WeightSummary ELSE 0)
      + citation_count(response) * WeightCitation

\* Variant: if score >= best_score
replaces_mutant_ge(new_score, old_score) == new_score >= old_score

\* Variant: the comparison is dropped, the last present response is kept
replaces_mutant_always(new_score, old_score) == TRUE

\* if score > best_score
replaces(new_score, old_score) == new_score > old_score

\* One iteration of the loop over responses
select_step(acc, response) ==
    IF response = None
    THEN acc
    ELSE IF replaces(score(response), acc.best_score)
         THEN [best_response |-> response, best_score |-> score(response)]
         ELSE acc

RECURSIVE select_loop(_, _)
select_loop(acc, rs) ==
    IF rs = <<>> THEN acc
    ELSE select_loop(select_step(acc, Head(rs)), Tail(rs))

select_best_result(rs) ==
    select_loop([best_response |-> None, best_score |-> InitialBestScore], rs)

-----------------------------------------------------------------------------
(* create_optimized_queries and create_enhanced_query_with_context *)

IndexError == [kind |-> "IndexError"]

\* The prompt types of the per-category tables
TableTypes == {"CHIFFRE_AFFAIRES", "CONCURRENCE", "MARGE_BRUTE", "OPERATION",
               "PERSONNE_CLE"}

\* The prompt types only priority_terms knows
PriorityOnlyTypes == {"MARCHE", "PRESENTATION"}

\* synonym_mappings: per type the (term, synonyms) pairs in insertion order.
\* A synonym phrase is cut so that every term of the same type that occurs
\* in it is a symbol of its own.
synonym_mappings(t) ==
    CASE t = "CHIFFRE_AFFAIRES" ->
           << [term |-> <<"chiffre d'affaires">>,
               synonyms |-> <<"chiffre d'affaires",
                              " revenus ventes turnover CA recettes">>],
              [term |-> <<"evolution">>,
               synonyms |-> <<"evolution",
                              " croissance progression variation developpement">>],
              [term |-> <<"Reno Energy">>,
               synonyms |-> <<"Reno Energy", " entreprise societe">>] >>
      [] t = "CONCURRENCE" ->
           << [term |-> <<"concurrence">>,
               synonyms |-> <<"concurrence", " concurrents competiteurs acteurs ",
                              "marche", " rivals">>],
              [term |-> <<"positionnement">>,
               synonyms |-> <<"positionnement",
                              " strategie differenciation avantage">>],
              [term |-> <<"marche">>,
               synonyms |-> <<"marche", " secteur industrie segment ecosysteme">>] >>
      [] t = "MARGE_BRUTE" ->
           << [term |-> <<"marge">>,
               synonyms |-> <<"marge",
                              " brute profitabilite rentabilite margin profit">>],
              [term |-> <<"couts">>,
               synonyms |-> <<"couts", " charges depenses frais prix revient">>] >>
      [] t = "OPERATION" ->
           << [term |-> <<"acquisition">>,
               synonyms |-> <<"acquisition",
                              " rachat investissement operation transaction deal">>],
              [term |-> <<"valorisation">>,
               synonyms |-> <<"valorisation", " valeur prix montant evaluation">>],
              [term |-> <<"EODEN">>,
               synonyms |-> <<"EODEN", " investisseur acquereur fonds">>] >>
      [] t = "PERSONNE_CLE" ->
           << [term |-> <<"dirigeants">>,
               synonyms |-> <<"dirigeants", " management equipe leadership team">>],
              [term |-> <<"profil">>,
               synonyms |-> <<"profil", " experience parcours background">>] >>
      [] OTHER -> <<>>

\* technical_terms.get(prompt_type, 'Reno Energy 2024')
technical_terms_get(t) ==
    CASE t = "CHIFFRE_AFFAIRES" ->
           <<"Reno Energy chiffre affaires revenue financier EODEN 2024">>
      [] t = "CONCURRENCE" ->
           <<"Reno Energy concurrence competitive marche secteur 2024">>
      [] t = "MARGE_BRUTE" ->
           <<"Reno Energy marge profitabilite couts rentabilite">>
      [] t = "OPERATION" ->
           <<"Reno Energy acquisition EODEN transaction operation investissement 2024">>
      [] t = "PERSONNE_CLE" ->
           <<"Reno Energy management dirigeants equipe direction">>
      [] OTHER -> <<"Reno Energy 2024">>

\* short_terms[prompt_type], for the types of the table
short_terms(t) ==
    CASE t = "CHIFFRE_AFFAIRES" -> <<"Reno Energy chiffre affaires EODEN 2024">>
      [] t = "CONCURRENCE"      -> <<"Reno Energy concurrents marche 2024">>
      [] t = "MARGE_BRUTE"      -> <<"Reno Energy marge rentabilite">>
      [] t = "OPERATION"        -> <<"Reno Energy acquisition EODEN 2024">>
      [] t = "PERSONNE_CLE"     -> <<"Reno Energy dirigeants management">>

\* priority_terms of create_enhanced_query_with_context
priority_terms(t) ==
    CASE t = "CHIFFRE_AFFAIRES" -> <<"financier chiffre affaires revenue CA 2024 2023">>
      [] t = "CONCURRENCE"      -> <<"marche concurrence competitive secteur 2024">>
      [] t = "OPERATION"        ->
           <<"acquisition EODEN operation transaction investissement 2024">>
      [] t = "MARGE_BRUTE"      -> <<"marge profitabilite rentabilite couts">>
      [] t = "PERSONNE_CLE"     -> <<"management equipe dirigeants organigramme">>
      [] t = "MARCHE"           ->
           <<"marche secteur energies renouvelables photovoltaique">>
      [] t = "PRESENTATION"     ->
           <<"presentation profil entreprise societe Reno Energy">>

create_enhanced_query_with_context(query, t) ==
    LET enhanced_query ==
            IF t \in TableTypes \cup PriorityOnlyTypes
            THEN query \o <<" ">> \o priority_terms(t)
            ELSE query
    IN enhanced_query \o <<" ", "EODEN 2024 2023">>

\* Variant: enriched_query.replace(term, synonyms, 1)
enrich_step_mutant_first_only(so_far, pair) ==
    IF Contains(so_far, pair.term)
    THEN LET i == CHOOSE k \in 1..Len(so_far) :
                      /\ SubSeq(so_far, k, k + Len(pair.term) - 1) = pair.term
                      /\ \A j \in 1..(k - 1) :
                             SubSeq(so_far, j, j + Len(pair.term) - 1) # pair.term
         IN SubSeq(so_far, 1, i - 1) \o pair.synonyms
              \o SubSeq(so_far, i + Len(pair.term), Len(so_far))
    ELSE so_far

\* if term.lower() in enriched_query.lower():
\*     enriched_query = enriched_query.replace(term, synonyms)
enrich_step(so_far, pair) ==
    IF Contains(Lower(so_far), Lower(pair.term))
    THEN Replace(so_far, pair.term, pair.synonyms)
    ELSE so_far

RECURSIVE enrich_loop(_, _)
enrich_loop(so_far, pairs) ==
    IF pairs = <<>> THEN so_far
    ELSE enrich_loop(enrich_step(so_far, Head(pairs)), Tail(pairs))

\* Query 1
enriched_query_of(query, t) ==
    create_enhanced_query_with_context(
        enrich_loop(query, synonym_mappings(t)), t)

\* Query 2
technical_query_of(query, t) == query \o <<" ">> \o technical_terms_get(t)

\* f"Reno Energy {base_query.split()[0]} 2024": the default handed to
\* short_terms.get, built before the lookup whatever the prompt type is
short_default(query) ==
    IF Split(query) = <<>>
    THEN IndexError
    ELSE [kind |-> "str",
          str |-> <<"Reno Energy ">> \o Split(query)[1] \o <<" 2024">>]

\* Query 3: short_terms.get(prompt_type, <the default>)
short_query_of(query, t) ==
    IF t \in TableTypes THEN short_terms(t) ELSE short_default(query).str

\* The returned list of 3 queries, or the exception that leaves the function
create_optimized_queries(query, t) ==
    IF short_default(query) = IndexError
    THEN IndexError
    ELSE [kind |-> "list",
          items |-> << enriched_query_of(query, t),
                       technical_query_of(query, t),
                       short_query_of(query, t) >>]

-----------------------------------------------------------------------------
(* Specification of create_optimized_queries alone: any base query over a  *)
(* small vocabulary and any prompt type, then one call.                    *)

QuerySymbols == {" ", "q", "marge", "Marge", "concurrence"}

BaseQueries == SeqUpTo(QuerySymbols, MaxQueryLen)

PromptTypes == TableTypes \cup PriorityOnlyTypes \cup {"AUTRE"}

QueryInit ==
    /\ pc = "queries_call"
    /\ base_query \in BaseQueries
    /\ prompt_type \in PromptTypes
    /\ queries = None /\ enriched_query = <<>>
    /\ IdleSearch /\ IdleSelect /\ IdleTemplate /\ IdleMain /\ IdleDoc

CallQueries ==
    /\ pc = "queries_call"
    /\ enriched_query' = enriched_query_of(base_query, prompt_type)
    /\ queries' = create_optimized_queries(base_query, prompt_type)
    /\ pc' = "queries_returned"
    /\ UNCHANGED <<mainVars, docVars, base_query, prompt_type, searchVars, selectVars, templateVars>>

QueryNext == CallQueries

QuerySpec == QueryInit /\ [][QueryNext]_vars

\* C8: create_optimized_queries returns a sequence of exactly 3 strings for
\* every base query (the empty one and the all-blank ones included) and
\* every prompt type, without raising.
C8_AlwaysThreeQueries ==
    pc = "queries_returned" => (queries.kind = "list" /\ Len(queries.items) = 3)

\* C9: for a prompt type in none of the tables the technical query is the
\* base query followed by the generic default keywords and the short query
\* is built from the first blank-delimited token of the base query and
\* constant text; for a prompt type of the tables the short query is the
\* type's fixed short string, whatever the base query is.
C9_DefaultsAndFixedShort ==
    pc = "queries_returned" =>
        /\ queries.kind = "list"
        /\ prompt_type \notin (TableTypes \cup PriorityOnlyTypes) =>
              /\ queries.items[2] = base_query \o <<" ", "Reno Energy 2024">>
              /\ queries.items[3] =
                     <<"Reno Energy ">> \o Split(base_query)[1] \o <<" 2024">>
        /\ prompt_type \in TableTypes =>
              queries.items[3] = short_terms(prompt_type)

-----------------------------------------------------------------------------
(* replace_template_variables (the same function in both scripts) *)

\* str(value): a JSON string is itself, a JSON number is its decimal digits
Digit(n) == CASE n = 0 -> "0" [] n = 1 -> "1" [] n = 2 -> "2" [] n = 3 -> "3"
              [] n = 4 -> "4" [] n = 5 -> "5" [] n = 6 -> "6" [] n = 7 -> "7"
              [] n = 8 -> "8" [] n = 9 -> "9"

RECURSIVE Digits(_)
Digits(n) == IF n < 10 THEN <<Digit(n)>>
             ELSE Append(Digits(n \div 10), Digit(n % 10))

str(value) == IF "int" \in DOMAIN value THEN Digits(value.int) ELSE value.str

\* placeholder = "{" + key + "}"
placeholder(key) == <<"{">> \o key \o <<"}">>

\* Variant: result.replace(placeholder, str(value), 1)
replace_step_mutant_first_only(result_text, entry) ==
    LET ph == placeholder(entry.key) IN
    IF Contains(result_text, ph)
    THEN LET i == CHOOSE k \in 1..Len(result_text) :
                      /\ SubSeq(result_text, k, k + Len(ph) - 1) = ph
                      /\ \A j \in 1..(k - 1) :
                             SubSeq(result_text, j, j + Len(ph) - 1) # ph
         IN SubSeq(result_text, 1, i - 1) \o str(entry.value)
              \o SubSeq(result_text, i + Len(ph), Len(result_text))
    ELSE result_text

\* result = result.replace(placeholder, str(value))
replace_step(result_text, entry) ==
    Replace(result_text, placeholder(entry.key), str(entry.value))

\* for key, value in template_dict.items()
RECURSIVE replace_loop(_, _)
replace_loop(result_text, entries) ==
    IF entries = <<>> THEN result_text
    ELSE replace_loop(replace_step(result_text, Head(entries)), Tail(entries))

\* dict is None when config is empty or has no "template_dictionary"
replace_template_variables(t, dict) ==
    IF dict = None THEN t ELSE replace_loop(t, dict.items)

-----------------------------------------------------------------------------
(* Specification of replace_template_variables alone: any text over three  *)
(* characters and any dictionary of at most two entries, then one call.    *)

TemplateChars == {"{", "}", "a"}

TemplateKeys == {<<"a">>, <<"a", "a">>}

TemplateValues == {[str |-> <<>>], [str |-> <<"a">>], [str |-> <<"{">>],
                   [str |-> <<"{", "a", "}">>], [int |-> 7]}

\* The dictionaries: entries in insertion order, no key twice
TemplateItems ==
    {<<>>}
    \cup {<<[key |-> k, value |-> v]>> : k \in TemplateKeys, v \in TemplateValues}
    \cup {<<[key |-> e[1], value |-> e[3]], [key |-> e[2], value |-> e[4]]>> :
             e \in {x \in TemplateKeys \X TemplateKeys
                            \X TemplateValues \X TemplateValues : x[1] # x[2]}}

TemplateDicts == [kind : {"dict"}, items : TemplateItems]

TemplateInit ==
    /\ pc = "template_call"
    /\ text \in SeqUpTo(TemplateChars, MaxTextLen)
    /\ template_dict \in TemplateDicts \cup {None}
    /\ resolved = <<>>
    /\ resolved_again = <<>>
    /\ IdleSearch /\ IdleSelect /\ IdleQuery /\ IdleMain /\ IdleDoc

CallTemplate ==
    /\ pc = "template_call"
    /\ resolved' = replace_template_variables(text, template_dict)
    /\ pc' = "template_returned"
    /\ UNCHANGED <<mainVars, docVars, text, template_dict, resolved_again,
                   searchVars, selectVars, queryVars>>

\* The returned text is resolved once more with the same dictionary
CallTemplateAgain ==
    /\ pc = "template_returned"
    /\ resolved_again' = replace_template_variables(resolved, template_dict)
    /\ pc' = "template_returned_again"
    /\ UNCHANGED <<mainVars, docVars, text, template_dict, resolved,
                   searchVars, selectVars, queryVars>>

TemplateNext == CallTemplate \/ CallTemplateAgain

TemplateSpec == TemplateInit /\ [][TemplateNext]_vars

Resolved == pc = "template_returned" /\ template_dict # None

HasBrace(s) == \E i \in 1..Len(s) : s[i] \in {"{", "}"}

\* No "{" of s is followed by another "{" before the next "}"
NoNestedBrace(s) ==
    \A i, j \in 1..Len(s) :
        (i < j /\ s[i] = "{" /\ s[j] = "{") =>
            \E m \in (i + 1)..(j - 1) : s[m] = "}"

\* No key and no rendered value of the dictionary holds a brace
BraceFreeDict(d) ==
    \A n \in 1..Len(d.items) :
        ~HasBrace(d.items[n].key) /\ ~HasBrace(str(d.items[n].value))

\* C10 (as stated): for every key k of D whose placeholder {k} occurs in T,
\* the result holds no literal {k}, unless D[k] itself holds {k}.
C10_AsStated ==
    Resolved =>
        \A n \in 1..Len(template_dict.items) :
            Contains(text, placeholder(template_dict.items[n].key)) =>
                \/ ~Contains(resolved, placeholder(template_dict.items[n].key))
                \/ Contains(str(template_dict.items[n].value),
                            placeholder(template_dict.items[n].key))

\* C10 (amended): when no key and no value of D holds a brace character and
\* no "{" of T is followed by another "{" before the next "}", then for
\* every key k of D whose placeholder {k} occurs in T the result holds no
\* literal {k}.
C10_NoPlaceholderLeft ==
    (Resolved /\ BraceFreeDict(template_dict) /\ NoNestedBrace(text)) =>
        \A n \in 1..Len(template_dict.items) :
            Contains(text, placeholder(template_dict.items[n].key)) =>
                ~Contains(resolved, placeholder(template_dict.items[n].key))

\* C10 witness: a two-entry dictionary, a text that holds the placeholder
\* of its first key twice, and a result with the value in place of both.
C10_Witness ==
    /\ Resolved
    /\ Len(template_dict.items) = 2
    /\ BraceFreeDict(template_dict)
    /\ NoNestedBrace(text)
    /\ text = placeholder(template_dict.items[1].key) \o placeholder(template_dict.items[1].key)
    /\ resolved = str(template_dict.items[1].value) \o str(template_dict.items[1].value)
    /\ resolved # <<>>

ResolvedAgain == pc = "template_returned_again" /\ template_dict # None

\* No value of the dictionary holds the placeholder of another key
NoCrossPlaceholder(d) ==
    \A m, n \in 1..Len(d.items) :
        m # n => ~Contains(str(d.items[m].value), placeholder(d.items[n].key))

\* C11 (as stated): when no value of D holds another key's placeholder,
\* resolving the resolved text again with D gives the same text.
C11_AsStated ==
    (ResolvedAgain /\ NoCrossPlaceholder(template_dict)) =>
        resolved_again = resolved

\* C11 (amended): when no key and no value of D holds a brace character and
\* no "{" of T is followed by another "{" before the next "}", resolving
\* the resolved text again with D gives the same text.
C11_Idempotent ==
    (ResolvedAgain /\ BraceFreeDict(template_dict) /\ NoNestedBrace(text)) =>
        resolved_again = resolved

\* C11 witness: a text holding the placeholder of a key of a two-entry
\* dictionary was changed by the first resolution and left as it is by the
\* second.
C11_Witness ==
    /\ ResolvedAgain
    /\ Len(template_dict.items) = 2
    /\ BraceFreeDict(template_dict)
    /\ NoNestedBrace(text)
    /\ Contains(text, placeholder(template_dict.items[2].key))
    /\ resolved # text
    /\ resolved # <<>>
    /\ resolved_again = resolved

-----------------------------------------------------------------------------
(* Specification of select_best_result alone: any sequence of absent or    *)
(* present responses, then one call.                                       *)

\* The sequences of n entries, each absent or a response; the response at
\* position i is the object i
SelectInputs(n) ==
    {[i \in 1..n |-> IF f[i] = None THEN None ELSE [f[i] EXCEPT !.id = i]] :
        f \in [1..n -> {None} \cup SearchResponses(0)]}

SelectInit ==
    /\ pc = "select_call"
    /\ \E n \in 0..MaxResponses : responses \in SelectInputs(n)
    /\ best_response = None
    /\ best_score = 0
    /\ IdleSearch /\ IdleQuery /\ IdleTemplate /\ IdleMain /\ IdleDoc

CallSelect ==
    /\ pc = "select_call"
    /\ LET r == select_best_result(responses) IN
         /\ best_response' = r.best_response
         /\ best_score' = r.best_score
    /\ pc' = "select_returned"
    /\ UNCHANGED <<mainVars, docVars, responses, searchVars, queryVars, templateVars>>

SelectNext == CallSelect

SelectSpec == SelectInit /\ [][SelectNext]_vars

-----------------------------------------------------------------------------
(* Properties of select_best_result *)

\* The score as section 4.5 of the specification states it
ClaimCitationCount(r) ==
    IF r.summary = None \/ r.summary.summary_with_metadata = None
    THEN 0
    ELSE r.summary.summary_with_metadata.citations

ClaimScore(r) ==
    2 * r.results
      + (IF r.summary # None /\ r.summary.summary_text # "" THEN 50 ELSE 0)
      + 10 * ClaimCitationCount(r)

Present(rs) == {i \in 1..Len(rs) : rs[i] # None}

\* The greatest score among the present responses (0 when none is present)
MaxClaimScore(rs) ==
    IF Present(rs) = {} THEN 0
    ELSE CHOOSE m \in {ClaimScore(rs[i]) : i \in Present(rs)} :
             \A i \in Present(rs) : ClaimScore(rs[i]) <= m

\* The positions whose response attains the greatest score
ArgMax(rs) == {i \in Present(rs) : ClaimScore(rs[i]) = MaxClaimScore(rs)}

FirstArgMax(rs) == CHOOSE i \in ArgMax(rs) : \A j \in ArgMax(rs) : i <= j

Returned == pc = "select_returned"

\* C1 (as stated): whenever some response is present, select_best_result
\* returns a present response whose score 2*results + 50*[summary text
\* non-empty] + 10*citations is the greatest among the present responses.
C1_AsStated ==
    (Returned /\ Present(responses) # {}) =>
        /\ \E i \in Present(responses) : best_response = responses[i]
        /\ best_response # None => ClaimScore(best_response) = MaxClaimScore(responses)

\* C1 (amended): when the greatest score among the present responses is
\* above zero, select_best_result returns a present response with that
\* score (and its best_score is that score); when no response is present or
\* every present response scores 0, it returns none.
C1_BestScoreSelected ==
    Returned =>
        IF MaxClaimScore(responses) > 0
        THEN /\ \E i \in Present(responses) : best_response = responses[i]
             /\ ClaimScore(best_response) = MaxClaimScore(responses)
             /\ best_score = MaxClaimScore(responses)
        ELSE best_response = None

\* C1 witness: a response with one result and no summary (score 2) comes
\* before one with a summary text and a citation (score 62); the second is
\* returned.
C1_Witness ==
    /\ Returned
    /\ Len(responses) = 2
    /\ Present(responses) = {1, 2}
    /\ ClaimScore(responses[1]) = 2
    /\ ClaimScore(responses[2]) = 62
    /\ best_response = responses[2]

\* C2 (as stated): when two or more present responses share the greatest
\* score, the one that comes first in the sequence is returned.
C2_AsStated ==
    (Returned /\ Cardinality(ArgMax(responses)) >= 2) =>
        best_response = responses[FirstArgMax(responses)]

\* C2 (amended): when two or more present responses share the greatest
\* score and that score is above zero, the one that comes first in the
\* sequence is returned; a later response with an equal score never
\* replaces it.
C2_FirstSeenWinsTie ==
    (Returned /\ Cardinality(ArgMax(responses)) >= 2
              /\ MaxClaimScore(responses) > 0) =>
        best_response = responses[FirstArgMax(responses)]

\* C2 witness: three present responses, the last two tie on a positive
\* greatest score, and the earlier of the two is returned.
C2_Witness ==
    /\ Returned
    /\ Len(responses) = 3
    /\ ArgMax(responses) = {2, 3}
    /\ MaxClaimScore(responses) > 0
    /\ best_response = responses[2]
    /\ best_response # responses[3]

\* C3 (as stated): none is returned when every entry is absent or the
\* sequence is empty; a sequence with exactly one present response yields
\* that response, whatever its result count, summary and citations.
C3_AsStated ==
    Returned =>
        /\ Present(responses) = {} => best_response = None
        /\ \A i \in Present(responses) :
               Present(responses) = {i} => best_response = responses[i]

\* C3 (amended): none is returned when every entry is absent or the
\* sequence is empty; a sequence with exactly one present response yields
\* that response when its score is above zero, and none when its score is 0
\* (no result document, no summary text, no citation).
C3_NoneOrSole ==
    Returned =>
        /\ Present(responses) = {} => best_response = None
        /\ \A i \in Present(responses) :
               Present(responses) = {i} =>
                   best_response = IF ClaimScore(responses[i]) > 0
                                   THEN responses[i] ELSE None

\* C3 witness: the only present response sits between two absent entries
\* and is returned.
C3_Witness ==
    /\ Returned
    /\ Len(responses) = 3
    /\ Present(responses) = {2}
    /\ best_response = responses[2]

\* C7: a response with no result document and no summary scores 0, and is
\* not the response returned when the sequence also holds a response with
\* at least one result document, wherever the two stand in the sequence.
C7_EmptyNeverPreferred ==
    Returned =>
        \A i \in Present(responses) :
            (responses[i].results = 0 /\ responses[i].summary = None) =>
                /\ score(responses[i]) = 0
                /\ (\E j \in Present(responses) : responses[j].results >= 1)
                       => best_response # responses[i]

\* C7 witness: an empty response comes last, after a response with a result
\* document, and the call has returned the other one.
C7_Witness ==
    /\ Returned
    /\ Len(responses) = 2
    /\ Present(responses) = {1, 2}
    /\ responses[1].results >= 1
    /\ responses[2].results = 0 /\ responses[2].summary = None
    /\ best_response = responses[1]

-----------------------------------------------------------------------------
(* execute_single_search and the concurrent part of                        *)
(* execute_optimized_prompt: three searches on a pool of three workers,    *)
(* collected with as_completed, then select_best_result.                   *)

\* What client.search does for the request of future id: a response, or an
\* exception of the service
SearchOutcomes(id) == SearchResponses(id) \cup {[kind |-> "Exception"]}

\* Variant: no try/except, the exception stays in the future
execute_single_search_mutant_no_catch(outcome) == outcome

\* try: return client.search(request) / except Exception: return None
execute_single_search(outcome) ==
    IF outcome.kind = "Exception" THEN None ELSE outcome

\* Variant: the loop is left after the first future
collection_done_mutant_first_only(yielded, futures) == Len(yielded) >= 1

\* The loop over as_completed(futures) ends when every future was yielded
collection_done(yielded, futures) == Len(yielded) = Len(futures)

\* The orders in which a set of futures can be listed
Orders(S) == {o \in [1..Cardinality(S) -> S] :
                 \A i, j \in 1..Cardinality(S) : i # j => o[i] # o[j]}

Finished == {i \in 1..Len(state) : state[i] = "finished"}

AdvBaseQueries == {<<>>, <<"q">>}

AdvPromptTypes == {"MARGE_BRUTE"}

AdvInit ==
    /\ pc = "adv_start"
    /\ base_query \in AdvBaseQueries
    /\ prompt_type \in AdvPromptTypes
    /\ queries = None /\ enriched_query = <<>>
    /\ IdleSearch /\ IdleSelect /\ IdleTemplate /\ IdleMain /\ IdleDoc

\* Lines 263-272: the credentials are read and the client built (either can
\* raise), then the three queries are created (which can raise)
Prepare ==
    /\ pc = "adv_start"
    /\ \E credentials_ok \in BOOLEAN :
         IF ~credentials_ok
         THEN /\ report' = "Erreur"
              /\ returned' = None
              /\ pc' = "adv_done"
              /\ UNCHANGED <<queries, enriched_query>>
         ELSE /\ enriched_query' = enriched_query_of(base_query, prompt_type)
              /\ queries' = create_optimized_queries(base_query, prompt_type)
              /\ IF queries'.kind = "IndexError"
                 THEN report' = "Erreur" /\ returned' = None /\ pc' = "adv_done"
                 ELSE report' = "" /\ pc' = "adv_submit" /\ UNCHANGED returned
    /\ UNCHANGED <<mainVars, docVars, base_query, prompt_type, selectVars, templateVars,
                   state, sent, result, waiter, collected, displayed>>

\* Lines 279-282: executor.submit(execute_single_search, client, request)
Submit ==
    /\ pc = "adv_submit"
    /\ state' = Append(state, "queued")
    /\ sent' = Append(sent, 0)
    /\ result' = Append(result, None)
    /\ pc' = IF Len(state') = Len(queries.items)
             THEN "adv_as_completed" ELSE "adv_submit"
    /\ UNCHANGED <<mainVars, docVars, queryVars, selectVars, templateVars,
                   waiter, collected, displayed, report, returned>>

\* A worker of the pool takes the task and calls client.search(request)
StartSearch(i) ==
    /\ state[i] = "queued"
    /\ state' = [state EXCEPT ![i] = "running"]
    /\ sent' = [sent EXCEPT ![i] = @ + 1]
    /\ UNCHANGED <<mainVars, docVars, pc, queryVars, selectVars, templateVars,
                   result, waiter, collected, displayed, report, returned>>

\* client.search returns or raises, execute_single_search returns and the
\* future completes; a future completing after as_completed was entered is
\* queued for it in completion order
FinishSearch(i) ==
    /\ state[i] = "running"
    /\ \E outcome \in SearchOutcomes(i) :
         result' = [result EXCEPT ![i] = execute_single_search(outcome)]
    /\ state' = [state EXCEPT ![i] = "finished"]
    /\ waiter' = IF pc = "adv_collect" THEN Append(waiter, i) ELSE waiter
    /\ UNCHANGED <<mainVars, docVars, pc, queryVars, selectVars, templateVars,
                   sent, collected, displayed, report, returned>>

\* Line 285, as_completed(futures): the futures already finished are
\* yielded first, in the order of a set
AsCompleted ==
    /\ pc = "adv_as_completed"
    /\ waiter' \in Orders(Finished)
    /\ pc' = "adv_collect"
    /\ UNCHANGED <<mainVars, docVars, queryVars, selectVars, templateVars,
                   state, sent, result, collected, displayed, report, returned>>

\* Lines 285-287: the next future is yielded, response = future.result()
\* (which raises what the task raised) and responses.append(response)
Collect ==
    /\ pc = "adv_collect"
    /\ waiter # <<>>
    /\ LET future == Head(waiter) IN
         /\ waiter' = Tail(waiter)
         /\ collected' = Append(collected, future)
         /\ IF result[future].kind = "Exception"
            THEN /\ report' = "raised"
                 /\ pc' = "adv_exit_pool"
                 /\ UNCHANGED responses
            ELSE /\ responses' = Append(responses, result[future])
                 /\ pc' = IF collection_done(collected', state)
                          THEN "adv_exit_pool" ELSE "adv_collect"
                 /\ UNCHANGED report
    /\ UNCHANGED <<mainVars, docVars, queryVars, templateVars, best_response, best_score,
                   state, sent, result, displayed, returned>>

\* End of the with block: the pool is shut down once every task is over;
\* an exception then reaches the handler of lines 301-303
ExitPool ==
    /\ pc = "adv_exit_pool"
    /\ \A i \in 1..Len(state) : state[i] = "finished"
    /\ IF report = "raised"
       THEN report' = "Erreur" /\ returned' = None /\ pc' = "adv_done"
       ELSE pc' = "adv_select" /\ UNCHANGED <<report, returned>>
    /\ UNCHANGED <<mainVars, docVars, queryVars, selectVars, templateVars,
                   state, sent, result, waiter, collected, displayed>>

\* Lines 290-299: the best response is selected and displayed, or the
\* absence of a result is reported
SelectAndDisplay ==
    /\ pc = "adv_select"
    /\ LET r == select_best_result(responses) IN
         /\ best_response' = r.best_response
         /\ best_score' = r.best_score
         /\ IF r.best_response = None
            THEN /\ report' = "Aucun resultat obtenu"
                 /\ returned' = None
                 /\ UNCHANGED displayed
            ELSE /\ displayed' = Append(displayed, r.best_response)
                 /\ report' = "displayed"
                 /\ returned' = r.best_response
    /\ pc' = "adv_done"
    /\ UNCHANGED <<mainVars, docVars, queryVars, templateVars, responses,
                   state, sent, result, waiter, collected>>

AdvNext ==
    \/ Prepare
    \/ Submit
    \/ \E i \in 1..Len(state) : StartSearch(i)
    \/ \E i \in 1..Len(state) : FinishSearch(i)
    \/ AsCompleted
    \/ Collect
    \/ ExitPool
    \/ SelectAndDisplay

AdvSpec == AdvInit /\ [][AdvNext]_vars

-----------------------------------------------------------------------------
(* Properties of the concurrent search *)

Futures == 1..Len(state)

Failed(i) == state[i] = "finished" /\ result[i].kind # "SearchResponse"

Succeeded(i) == state[i] = "finished" /\ result[i].kind = "SearchResponse"

\* execute_optimized_prompt is over and the searches had been submitted
SearchesOver == pc = "adv_done" /\ state # <<>>

\* select_best_result was called and execute_optimized_prompt is over
Selected == pc = "adv_done" /\ report \in {"displayed", "Aucun resultat obtenu"}

\* Each failed request left an absent entry, each request that succeeded
\* left its response, and every request is over and was collected
FailuresIsolated ==
    /\ Selected
    /\ Len(responses) = Len(state)
    /\ Len(collected) = Len(state)
    /\ \A i \in Futures : state[i] = "finished"
    /\ \A i \in Futures : \E n \in 1..Len(collected) : collected[n] = i
    /\ \A n \in 1..Len(collected) :
           /\ Failed(collected[n]) => responses[n] = None
           /\ Succeeded(collected[n]) => responses[n] = result[collected[n]]

\* C4 (as stated): when one of the three searches raises, its outcome is an
\* absent entry, its siblings complete and are collected, and
\* select_best_result returns a response whenever a search succeeded.
C4_AsStated ==
    (SearchesOver /\ \E i \in Futures : Failed(i)) =>
        /\ FailuresIsolated
        /\ (\E i \in Futures : Succeeded(i)) => best_response # None

\* C4 (amended): when one of the three searches raises, its outcome is an
\* absent entry, its siblings complete and are collected, and
\* select_best_result returns a response whenever a search succeeded with a
\* response that scores above zero.
C4_FailureIsolated ==
    (SearchesOver /\ \E i \in Futures : Failed(i)) =>
        /\ FailuresIsolated
        /\ (\E i \in Futures : Succeeded(i) /\ ClaimScore(result[i]) > 0)
               => best_response # None

\* C4 witness: the search collected first failed, the two others succeeded
\* and one of them was selected and displayed.
C4_Witness ==
    /\ SearchesOver
    /\ Len(collected) = 3
    /\ Failed(collected[1])
    /\ Succeeded(collected[2]) /\ Succeeded(collected[3])
    /\ best_response # None
    /\ report = "displayed"

\* C5: every submitted search is sent to the service at most once, exactly
\* once as soon as it runs, and never again; every collected entry is the
\* outcome of a different request; and select_best_result is called only
\* when every request is over, on a sequence with exactly one entry per
\* submitted request.
C5_OneOutcomePerRequest ==
    /\ \A i \in Futures :
           /\ sent[i] <= 1
           /\ state[i] \in {"running", "finished"} => sent[i] = 1
    /\ \A m, n \in 1..Len(collected) : m # n => collected[m] # collected[n]
    /\ \A n \in 1..Len(responses) : responses[n] = result[collected[n]]
    /\ (pc = "adv_select" \/ Selected) =>
           /\ Len(state) = Len(queries.items)
           /\ \A i \in Futures : state[i] = "finished" /\ sent[i] = 1
           /\ Len(responses) = Len(state)
           /\ Len(collected) = Len(state)
           /\ \A i \in Futures : \E n \in 1..Len(collected) : collected[n] = i

\* C5 witness: select_best_result is about to be called on three entries
\* collected in the order 2, 3, 1, of which one is a failure.
C5_Witness ==
    /\ pc = "adv_select"
    /\ collected = <<2, 3, 1>>
    /\ Failed(3)
    /\ Succeeded(1) /\ Succeeded(2)
    /\ \A i \in Futures : sent[i] = 1

SelectedScore(r) == IF r = None THEN 0 ELSE ClaimScore(r)

\* C6: whatever the order in which the same three outcomes are collected,
\* the score of the selected response is the same as in the order that
\* occurred, and the selected response itself is the same when exactly one
\* present response attains the greatest score.
C6_OrderOnlyBreaksTies ==
    Selected =>
        \A o \in Orders(Futures) :
            LET other == select_best_result([n \in Futures |-> result[o[n]]]).best_response
            IN /\ SelectedScore(other) = SelectedScore(best_response)
               /\ Cardinality(ArgMax(responses)) = 1 => other = best_response

\* C6 witness: the outcomes were collected in the order 3, 1, 2, the first
\* two collected both score above zero, and the response of request 1
\* alone attains the greatest score and is selected.
C6_Witness ==
    /\ Selected
    /\ collected = <<3, 1, 2>>
    /\ Succeeded(1) /\ Succeeded(3)
    /\ ClaimScore(result[3]) > 0
    /\ Cardinality(ArgMax(responses)) = 1
    /\ best_response = result[1]

-----------------------------------------------------------------------------
(* The prompt configuration, as execute_optimized_prompt and execute_prompt *)
(* read it.  A text is Str(s) with s a sequence of symbols; an entry that   *)
(* a dict does not have is None.                                            *)

KeyError          == [kind |-> "KeyError"]
EOFError          == [kind |-> "EOFError"]
KeyboardInterrupt == [kind |-> "KeyboardInterrupt"]

Str(s) == [kind |-> "str", str |-> s]

\* A prompt definition: a dict with the entries "prompt" and "instructions"
PromptDef(prompt, instructions) ==
    [kind |-> "dict", prompt |-> prompt, instructions |-> instructions]

\* bool(d) of a prompt definition: a dict with no entry is false
Truthy(d) == d # None /\ ~(d.prompt = None /\ d.instructions = None)

KeyCA == <<"C", "A">>
KeyOP == <<"O", "P">>

PromptKeys == {KeyCA, KeyOP}

\* config.get(section, {}).get(key)
section_get(cfg, section, key) ==
    IF cfg[section] = None THEN None ELSE cfg[section].defs[key]

\* config.get(section, {}).keys()
section_keys(cfg, section) ==
    IF cfg[section] = None THEN {}
    ELSE {k \in PromptKeys : cfg[section].defs[k] # None}

\* config.get("default_settings", {}).get(name, default)
default_get(cfg, name, default) ==
    IF cfg.default_settings = None THEN default
    ELSE IF cfg.default_settings[name] = None THEN default
         ELSE cfg.default_settings[name].str

\* prompt_data: prompts_config first, prompts_config_final otherwise
prompt_data(cfg, key) ==
    LET main  == section_get(cfg, "prompts_config", key)
        final == section_get(cfg, "prompts_config_final", key)
    IN IF Truthy(main) THEN main
       ELSE IF Truthy(final) THEN final
       ELSE None

\* instructions = replace_template_variables(prompt_data.get("instructions", ""), config)
instructions(cfg, key) ==
    LET d == prompt_data(cfg, key) IN
    replace_template_variables(
        IF d.instructions = None THEN <<>> ELSE d.instructions.str,
        cfg.template_dictionary)

\* base_instruction, replaced by base_instruction_final when the key is in
\* prompts_config_final
base_instruction(cfg, key) ==
    LET base == default_get(cfg, "base_instruction", <<>>) IN
    IF key \in section_keys(cfg, "prompts_config_final")
    THEN default_get(cfg, "base_instruction_final", base)
    ELSE base

\* system_prompt = f"{base_instruction}\n\n{instructions}" if instructions else base_instruction
system_prompt(cfg, key) ==
    IF instructions(cfg, key) # <<>>
    THEN base_instruction(cfg, key) \o <<"\n", "\n">> \o instructions(cfg, key)
    ELSE base_instruction(cfg, key)

\* The part of execute_optimized_prompt / execute_prompt before its try
\* block: not found (returns None), KeyError raised by prompt_data["prompt"],
\* or the base query and the system prompt
prepare(cfg, key) ==
    LET d == prompt_data(cfg, key) IN
    IF ~Truthy(d) THEN [kind |-> "not_found"]
    ELSE IF d.prompt = None THEN KeyError
    ELSE [kind          |-> "prepared",
          prompt_data   |-> d,
          base_query    |-> replace_template_variables(d.prompt.str,
                                                       cfg.template_dictionary),
          system_prompt |-> system_prompt(cfg, key)]

-----------------------------------------------------------------------------
(* Specification of the lookup and of the system prompt alone: any          *)
(* configuration whose two sections hold the key CA or not, with any        *)
(* default settings, then one call.                                         *)

Scripts == {"advanced", "simple"}

MainText  == <<"q">>
FinalText == <<"q", " ", "q">>

BaseInstructionText      == <<"B">>
BaseInstructionFinalText == <<"F">>

InstructionsText == <<"i">>

\* The values a section can hold for a key, None when it has no such key
Defs(prompt) == {None,
                 PromptDef(None, None),
                 PromptDef(None, Str(InstructionsText)),
                 PromptDef(Str(prompt), None),
                 PromptDef(Str(prompt), Str(<<>>)),
                 PromptDef(Str(prompt), Str(InstructionsText))}

\* The section with one key
SectionOf(key, d) ==
    [kind |-> "dict", defs |-> [k \in PromptKeys |-> IF k = key THEN d ELSE None]]

Sections(prompt) == {None} \cup {SectionOf(KeyCA, d) : d \in Defs(prompt)}

DefaultSettings ==
    {None} \cup [kind : {"dict"},
                 base_instruction       : {None, Str(BaseInstructionText)},
                 base_instruction_final : {None, Str(BaseInstructionFinalText)}]

PromptConfigs == [kind                 : {"dict"},
                  prompts_config       : Sections(MainText),
                  prompts_config_final : Sections(FinalText),
                  default_settings     : DefaultSettings,
                  template_dictionary  : {None}]

PromptInit ==
    /\ pc = "prompt_call"
    /\ script \in Scripts
    /\ config \in PromptConfigs
    /\ prompt_key = KeyCA
    /\ prepared = None
    /\ prompts_file = None /\ credentials = "" /\ choice = None
    /\ inputs = 0 /\ listed = 0 /\ issued = 0
    /\ IdleSearch /\ IdleSelect /\ IdleQuery /\ IdleTemplate /\ IdleDoc

\* Lines 240-258 of advanced_research.py, 64-84 of eoden_simple_prompt.py
CallPrepare ==
    /\ pc = "prompt_call"
    /\ prepared' = prepare(config, prompt_key)
    /\ pc' = "prompt_returned"
    /\ UNCHANGED <<docVars, script, prompts_file, config, credentials, prompt_key,
                   choice, inputs, listed, issued,
                   searchVars, selectVars, queryVars, templateVars>>

PromptNext == CallPrepare

PromptSpec == PromptInit /\ [][PromptNext]_vars

-----------------------------------------------------------------------------
(* main of the two scripts: the configuration is loaded, the variables are  *)
(* listed, then lines are read and prompts executed until the loop ends.    *)

MaxInputs == 2

\* load_prompts_config: None when the file is missing or is not valid JSON
load_prompts_config(file) ==
    IF file.kind \in {"FileNotFoundError", "JSONDecodeError"} THEN None ELSE file

\* not config: None, or the dict with no entry
NotConfig(cfg) ==
    \/ cfg = None
    \/ /\ cfg.prompts_config = None /\ cfg.prompts_config_final = None
       /\ cfg.default_settings = None /\ cfg.template_dictionary = None

\* list_available_variables: the keys of the two sections
list_available_variables(cfg) ==
    section_keys(cfg, "prompts_config") \cup section_keys(cfg, "prompts_config_final")

QuitCommands == {<<"q", "u", "i", "t">>, <<"e", "x", "i", "t">>, <<"q">>}

ListCommand == <<"l", "i", "s", "t">>

\* The name of a key, as the per-category tables of the query generator
\* are indexed
TypeName(key) == CASE key = KeyCA -> "CA"
                   [] key = KeyOP -> "OP"

\* Variant: the credentials are never checked
credentials_loaded_mutant_always(cred) == TRUE

\* open("config.json"), json.load and from_service_account_info all succeed
credentials_loaded(cred) == cred = "ok"

\* Variant: no break after execute_prompt
after_return_mutant_no_break(s) == "awaiting"

\* Where main goes when the execution returns: eoden_simple_prompt.py has
\* a break after execute_prompt (line 339), advanced_research.py has none
after_return(s) == IF s = "simple" THEN "terminated" ELSE "awaiting"

\* What a search of main can give: an exception, or a response without
\* summary
MainOutcomes(id) ==
    {o \in SearchOutcomes(id) : o.kind = "Exception" \/ o.summary = None}

\* The same outcome, for the request id
OutcomeFor(id, outcome) ==
    IF outcome.kind = "Exception" THEN outcome ELSE [outcome EXCEPT !.id = id]

DefaultSettingsBoth ==
    [kind |-> "dict",
     base_instruction       |-> Str(BaseInstructionText),
     base_instruction_final |-> Str(BaseInstructionFinalText)]

EmptyConfig == [kind |-> "dict", prompts_config |-> None,
                prompts_config_final |-> None, default_settings |-> None,
                template_dictionary |-> None]

MainConfigs ==
    [kind                 : {"dict"},
     prompts_config       : {None,
                             SectionOf(KeyCA, PromptDef(Str(MainText), None)),
                             SectionOf(KeyCA, PromptDef(Str(<<" ">>), None)),
                             SectionOf(KeyCA, PromptDef(None, Str(InstructionsText)))},
     prompts_config_final : {None,
                             SectionOf(KeyOP, PromptDef(Str(FinalText), None)),
                             SectionOf(KeyCA, PromptDef(None, None))},
     default_settings     : {DefaultSettingsBoth},
     template_dictionary  : {None}]

PromptsFiles == MainConfigs \cup {EmptyConfig, [kind |-> "FileNotFoundError"],
                                  [kind |-> "JSONDecodeError"]}

CredentialFiles == {"ok", "missing", "malformed"}

\* What input() gives: a line, or an exception
InputLines == {<<"q">>, <<" ", "Q", "u", "i", "t">>, <<"E", "x", "i", "t", " ">>,
               <<"l", "i", "s", "t">>, <<"L", "I", "S", "T">>,
               <<"c", "a">>, <<"C", "A", " ">>, <<"o", "p">>, <<"z">>, <<>>}

InputOutcomes == {Str(l) : l \in InputLines} \cup {KeyboardInterrupt, EOFError}

MainInit ==
    /\ pc = "main_start"
    /\ script \in Scripts
    /\ prompts_file \in PromptsFiles
    /\ credentials \in CredentialFiles
    /\ config = None /\ prompt_key = <<>> /\ prepared = None /\ choice = None
    /\ inputs = 0 /\ listed = 0 /\ issued = 0
    /\ IdleSearch /\ IdleSelect /\ IdleQuery /\ IdleTemplate /\ IdleDoc

\* main up to its loop (advanced_research.py 398-418, eoden 303-324)
LoadConfig ==
    /\ pc = "main_start"
    /\ config' = load_prompts_config(prompts_file)
    /\ IF NotConfig(config')
       THEN /\ report' = "Impossible de charger la configuration"
            /\ pc' = "main_returned"
            /\ UNCHANGED listed
       ELSE /\ listed' = listed + 1
            /\ IF list_available_variables(config') = {}
               THEN report' = "Aucune variable trouvee" /\ pc' = "main_returned"
               ELSE report' = "VARIABLES DISPONIBLES" /\ pc' = "awaiting"
    /\ UNCHANGED <<docVars, script, prompts_file, credentials, prompt_key, prepared,
                   choice, inputs, issued, selectVars, queryVars, templateVars,
                   state, sent, result, waiter, collected, displayed, returned>>

\* One pass of the loop up to the call of the execution
\* (advanced_research.py 420-437, eoden 326-347)
ReadInput ==
    /\ pc = "awaiting"
    /\ inputs < MaxInputs
    /\ inputs' = inputs + 1
    /\ \E line \in InputOutcomes :
         IF line = KeyboardInterrupt
         THEN /\ choice' = line
              /\ report' = "Au revoir"
              /\ pc' = "terminated"
              /\ UNCHANGED <<listed, prompt_key>>
         ELSE IF line = EOFError
         THEN /\ choice' = line
              /\ report' = "Erreur"
              /\ pc' = "awaiting"
              /\ UNCHANGED <<listed, prompt_key>>
         ELSE /\ choice' = Str(Upper(Strip(line.str)))
              /\ IF Lower(choice'.str) \in QuitCommands
                 THEN /\ report' = "Au revoir"
                      /\ pc' = "terminated"
                      /\ UNCHANGED <<listed, prompt_key>>
                 ELSE IF Lower(choice'.str) = ListCommand
                 THEN /\ listed' = listed + 1
                      /\ report' = "VARIABLES DISPONIBLES"
                      /\ pc' = "awaiting"
                      /\ UNCHANGED prompt_key
                 ELSE IF choice'.str \in list_available_variables(config)
                 THEN /\ prompt_key' = choice'.str
                      /\ report' = ""
                      /\ pc' = "executing"
                      /\ UNCHANGED listed
                 ELSE /\ report' = "Variable non trouvee"
                      /\ pc' = "awaiting"
                      /\ UNCHANGED <<listed, prompt_key>>
    /\ UNCHANGED <<docVars, script, prompts_file, config, credentials, prepared, issued,
                   selectVars, queryVars, templateVars,
                   state, sent, result, waiter, collected, displayed, returned>>

\* The three searches of execute_optimized_prompt, from the queries to the
\* display (lines 272-301)
SearchAdvanced ==
    LET optimized_queries ==
            create_optimized_queries(prepared'.base_query, TypeName(prompt_key))
    IN IF optimized_queries.kind = "IndexError"
       THEN /\ report' = "Erreur"
            /\ UNCHANGED <<issued, displayed, best_response, best_score>>
       ELSE LET futures == 1..Len(optimized_queries.items) IN
            \E outcome \in [futures -> MainOutcomes(1)] :
            \E o \in Orders(futures) :
              /\ issued' = issued + Cardinality(futures)
              /\ LET r == select_best_result(
                              [n \in futures |->
                                  execute_single_search(
                                      OutcomeFor(o[n], outcome[o[n]]))])
                 IN /\ best_response' = r.best_response
                    /\ best_score' = r.best_score
                    /\ IF r.best_response = None
                       THEN /\ report' = "Aucun resultat obtenu"
                            /\ UNCHANGED displayed
                       ELSE /\ displayed' = Append(displayed, r.best_response)
                            /\ report' = "displayed"

\* The search of execute_prompt, from the request to the display
\* (eoden_simple_prompt.py 98-275)
SearchSimple ==
    \E outcome \in MainOutcomes(1) :
      /\ issued' = issued + 1
      /\ IF outcome.kind = "Exception"
         THEN report' = "Erreur" /\ UNCHANGED displayed
         ELSE displayed' = Append(displayed, outcome) /\ report' = "displayed"
      /\ UNCHANGED <<best_response, best_score>>

\* execute_optimized_prompt(choice, config) / execute_prompt(choice, config)
\* and what main does when it returns or raises
Execute ==
    /\ pc = "executing"
    /\ \E interrupted \in BOOLEAN :
         IF interrupted
         THEN /\ report' = "Au revoir"
              /\ pc' = "terminated"
              /\ UNCHANGED <<prepared, issued, displayed, best_response, best_score>>
         ELSE /\ prepared' = prepare(config, prompt_key)
              /\ IF prepared'.kind = "not_found"
                 THEN /\ report' = "Variable non trouvee dans la configuration"
                      /\ pc' = after_return(script)
                      /\ UNCHANGED <<issued, displayed, best_response, best_score>>
                 ELSE IF prepared' = KeyError
                 THEN /\ report' = "Erreur"
                      /\ pc' = "awaiting"
                      /\ UNCHANGED <<issued, displayed, best_response, best_score>>
                 ELSE IF ~credentials_loaded(credentials)
                 THEN /\ report' = "Erreur"
                      /\ pc' = after_return(script)
                      /\ UNCHANGED <<issued, displayed, best_response, best_score>>
                 ELSE /\ IF script = "advanced" THEN SearchAdvanced ELSE SearchSimple
                      /\ pc' = after_return(script)
    /\ UNCHANGED <<docVars, script, prompts_file, config, credentials, prompt_key,
                   choice, inputs, listed, responses, queryVars, templateVars,
                   state, sent, result, waiter, collected, returned>>

MainNext ==
    \/ LoadConfig
    \/ ReadInput
    \/ Execute

MainSpec == MainInit /\ [][MainNext]_vars

-----------------------------------------------------------------------------
(* Properties of main *)

\* The loop of main has been entered
InLoop == pc \in {"awaiting", "executing", "terminated"}

\* The farewell message of the quit commands and of KeyboardInterrupt
Farewell == report = "Au revoir"

\* The last line read is a quit command
QuitRead == choice # None /\ choice.kind = "str" /\ Lower(choice.str) \in QuitCommands

\* The last execution came back to main with a return, not an exception
ExecutionReturned ==
    /\ choice # None /\ choice.kind = "str" /\ choice.str = prompt_key
    /\ prepared # None /\ prepared # KeyError
    /\ pc # "executing"
    /\ ~Farewell

\* C12 as stated: in both scripts the loop is terminated only by a quit
\* command or an interrupt, and everything else is reported and leaves it
\* awaiting input.
C12_AsStated ==
    InLoop =>
        /\ pc = "terminated" <=> Farewell
        /\ Farewell => QuitRead \/ choice = KeyboardInterrupt \/ choice.str = prompt_key
        /\ (inputs > 0 /\ pc = "awaiting") => report # ""

\* C12: in advanced_research.py the loop is terminated only by a quit
\* command or an interrupt; in eoden_simple_prompt.py it is also terminated
\* by the return of a prompt execution, found or not, succeeded or failed.
\* An unknown key, a list command, an error raised by input() and an
\* exception raised out of the execution are reported and leave the loop
\* awaiting input in both scripts.
C12_LoopTermination ==
    InLoop =>
        /\ pc = "terminated" <=>
               \/ Farewell
               \/ script = "simple" /\ ExecutionReturned
        /\ Farewell => QuitRead \/ choice = KeyboardInterrupt \/ choice.str = prompt_key
        /\ (inputs > 0 /\ pc = "awaiting") => report # ""
        /\ (script = "advanced" /\ ExecutionReturned) => pc = "awaiting"

\* C12 witness: the simple script has displayed the response of a prompt
\* and its loop is over without any quit command or interrupt.
C12_Witness ==
    /\ script = "simple"
    /\ pc = "terminated"
    /\ ExecutionReturned
    /\ report = "displayed"
    /\ displayed # <<>>

\* prompts_config.json is missing or is not valid JSON
BadPromptsFile == prompts_file.kind \in {"FileNotFoundError", "JSONDecodeError"}

\* config.json is missing or malformed
BadCredentials == credentials # "ok"

\* main has returned before its loop
Aborted ==
    /\ pc = "main_returned"
    /\ report = "Impossible de charger la configuration"
    /\ listed = 0 /\ issued = 0 /\ inputs = 0

\* C13 as stated: with a missing or malformed prompt configuration file or
\* credential file the run aborts with no variable list, no search request
\* and no input accepted.
C13_AsStated ==
    (pc # "main_start" /\ (BadPromptsFile \/ BadCredentials)) => Aborted

\* C13: with a missing or malformed prompt configuration file the run
\* aborts as soon as it is loaded: no variable list, no search request, no
\* input accepted.  A missing or malformed credential file is only read
\* when a prompt is executed, after the variable list was displayed: no
\* search request is ever issued and nothing is displayed, each execution
\* that reaches the credentials reports the error and returns, and the loop
\* of advanced_research.py goes on accepting input.
C13_ConfigurationErrors ==
    /\ (pc # "main_start" /\ BadPromptsFile) => Aborted
    /\ (pc # "main_start" /\ ~BadPromptsFile /\ BadCredentials) =>
           /\ issued = 0 /\ displayed = <<>>
           /\ report \notin {"displayed", "Aucun resultat obtenu"}
           /\ ~NotConfig(config) => listed >= 1
           /\ (ExecutionReturned /\ prepared.kind = "prepared") =>
                  /\ report = "Erreur"
                  /\ pc = after_return(script)

\* C13 witness: the credential file is missing, the advanced script has
\* listed the variables, reported the error of an execution without any
\* search request, and awaits the next line.
C13_Witness ==
    /\ credentials = "missing"
    /\ script = "advanced"
    /\ ExecutionReturned /\ prepared.kind = "prepared"
    /\ report = "Erreur"
    /\ pc = "awaiting"
    /\ listed >= 1 /\ issued = 0

\* A run aborted by the prompt configuration file
C13_WitnessAborted == BadPromptsFile /\ Aborted

\* Some request of the execution gave a response that scores above zero
SomeScored == \E i \in Futures : Succeeded(i) /\ ClaimScore(result[i]) > 0

\* C14: in the advanced script, once the three requests are over, when all
\* of them failed or no response scored above zero the execution reports
\* that no result was obtained, has never called display_results and
\* returns none; when some response scored above zero, display_results has
\* been called exactly once, on the selected response (a response of the
\* greatest score), which is also what is returned.  display_results is
\* never called before the selection.
C14_NoResultOrOneDisplay ==
    /\ ~Selected => displayed = <<>>
    /\ (Selected /\ ~SomeScored) =>
           /\ report = "Aucun resultat obtenu"
           /\ displayed = <<>>
           /\ returned = None
    /\ (Selected /\ SomeScored) =>
           /\ report = "displayed"
           /\ displayed = <<best_response>>
           /\ returned = best_response
           /\ \E i \in Futures :
                  /\ Succeeded(i) /\ best_response = result[i]
                  /\ \A j \in Futures :
                         Succeeded(j) => ClaimScore(result[j]) <= ClaimScore(result[i])

\* C14 witness: two requests failed and the third gave a response with no
\* result and no summary; no result is reported, nothing was displayed.
C14_Witness ==
    /\ Selected
    /\ Failed(1) /\ Failed(2) /\ Succeeded(3)
    /\ ClaimScore(result[3]) = 0
    /\ report = "Aucun resultat obtenu"
    /\ displayed = <<>>
    /\ returned = None

\* The other case: one request failed, two scored above zero, and the
\* selected one was displayed once
C14_WitnessDisplayed ==
    /\ Selected
    /\ Failed(1) /\ SomeScored
    /\ Len(displayed) = 1
    /\ returned = displayed[1]

-----------------------------------------------------------------------------
(* The display name of a result document.  A URI is a sequence of symbols, *)
(* each a character or a percent-encoded character; a name is a sequence   *)
(* of symbols too, a marker being one symbol.                              *)

MaxUriLen == 3

DocumentInconnu == <<"Document inconnu">>
DocumentSansNom == <<"Document sans nom">>

\* urllib.parse.unquote of one symbol
UnquoteSym(c) == CASE c = "%2F" -> "/"
                   [] c = "%20" -> " "
                   [] OTHER     -> c

\* urllib.parse.unquote(s)
unquote(s) == [i \in 1..Len(s) |-> UnquoteSym(s[i])]

\* s.split('/')[-1]: what follows the last "/" of s
RECURSIVE LastSegment(_)
LastSegment(s) ==
    IF s = <<>> THEN <<>>
    ELSE IF s[Len(s)] = "/" THEN <<>>
    ELSE Append(LastSegment(SubSeq(s, 1, Len(s) - 1)), s[Len(s)])

\* extract_document_name: the URI is split first, its last part decoded
extract_document_name(uri) ==
    IF uri = <<>> THEN DocumentInconnu
    ELSE LET filename == LastSegment(uri) IN
         IF filename # <<>> THEN unquote(filename) ELSE DocumentSansNom

\* display_results of advanced_research.py, lines 320-326
doc_name_advanced(sd) ==
    IF sd = None THEN DocumentInconnu
    ELSE IF sd.uri # <<>> THEN extract_document_name(sd.uri)
    ELSE IF sd.title # <<>> THEN sd.title
    ELSE DocumentInconnu

\* execute_prompt of eoden_simple_prompt.py, lines 157-170
doc_name_simple(sd) ==
    IF sd = None THEN DocumentInconnu
    ELSE LET from_uri == IF sd.uri # <<>> THEN extract_document_name(sd.uri)
                         ELSE DocumentInconnu
         IN IF from_uri = DocumentInconnu \/ from_uri = <<>>
            THEN IF sd.title # <<>> THEN sd.title
                 ELSE IF sd.name # <<>> THEN sd.name
                 ELSE from_uri
            ELSE from_uri

UriSymbols == {"/", "a", "%2F", "%20"}

\* doc.struct_data: None when the document has none, else its "uri",
\* "title" and "name", each empty when absent
StructDatas(n) ==
    {None} \cup [kind : {"dict"}, uri : [1..n -> UriSymbols],
                 title : {<<>>, <<"T">>}, name : {<<>>, <<"N">>}]

DocInit ==
    /\ pc = "doc_call"
    /\ script \in Scripts
    /\ \E n \in 0..MaxUriLen : struct_data \in StructDatas(n)
    /\ doc_name = <<>>
    /\ prompts_file = None /\ config = None /\ credentials = ""
    /\ prompt_key = <<>> /\ prepared = None /\ choice = None
    /\ inputs = 0 /\ listed = 0 /\ issued = 0
    /\ IdleSearch /\ IdleSelect /\ IdleQuery /\ IdleTemplate

ResolveName ==
    /\ pc = "doc_call"
    /\ doc_name' = IF script = "advanced" THEN doc_name_advanced(struct_data)
                   ELSE doc_name_simple(struct_data)
    /\ pc' = "doc_resolved"
    /\ UNCHANGED <<struct_data, mainVars, searchVars, selectVars, queryVars,
                   templateVars>>

DocNext == ResolveName

DocSpec == DocInit /\ [][DocNext]_vars

\* The name of the resolution policy: final path segment of the decoded
\* URI, else title, else name, else the unknown-document marker
PolicyName(sd) ==
    IF sd # None /\ sd.uri # <<>> THEN LastSegment(unquote(sd.uri))
    ELSE IF sd # None /\ sd.title # <<>> THEN sd.title
    ELSE IF sd # None /\ sd.name # <<>> THEN sd.name
    ELSE DocumentInconnu

\* C15: in both scripts the display name of a result document is the final
\* path segment of the percent-decoded URI when the structured data has a
\* non-empty URI, otherwise the title if present, otherwise the name if
\* present, otherwise the unknown-document marker.
C15_NamePolicy ==
    pc = "doc_resolved" => doc_name = PolicyName(struct_data)

\* The policy is followed by the simple script whenever the URI is empty,
\* and by both scripts whenever the URI neither ends with a slash nor holds
\* an encoded slash after its last slash and the name field is not the
\* only one present
C15_WhereFollowed ==
    pc = "doc_resolved" =>
        /\ (script = "simple" /\ struct_data # None /\ struct_data.uri = <<>>)
               => doc_name = PolicyName(struct_data)
        /\ (struct_data # None
              /\ struct_data.uri # <<>>
              /\ LastSegment(struct_data.uri) # <<>>
              /\ \A i \in 1..Len(LastSegment(struct_data.uri)) :
                     LastSegment(struct_data.uri)[i] # "%2F")
               => doc_name = PolicyName(struct_data)
        /\ (script = "advanced" /\ struct_data # None /\ struct_data.uri = <<>>
              /\ struct_data.title = <<>> /\ struct_data.name # <<>>)
               => doc_name = DocumentInconnu

-----------------------------------------------------------------------------
(* Properties of the enriched query *)

\* The first position where term occurs in s, compared case-insensitively
FirstOccurrence(s, term) ==
    CHOOSE i \in 1..Len(s) :
        /\ Lower(SubSeq(s, i, i + Len(term) - 1)) = Lower(term)
        /\ \A j \in 1..(i - 1) :
               Lower(SubSeq(s, j, j + Len(term) - 1)) # Lower(term)

\* s with its first occurrence of term replaced by phrase
ReplaceFirst(s, term, phrase) ==
    LET i == FirstOccurrence(s, term) IN
    SubSeq(s, 1, i - 1) \o phrase \o SubSeq(s, i + Len(term), Len(s))

\* The reference as stated: pair after pair, a term that occurs in the base
\* query has its first occurrence replaced
RECURSIVE FirstOccurrences(_, _, _)
FirstOccurrences(s, base, pairs) ==
    IF pairs = <<>> THEN s
    ELSE LET pair == Head(pairs) IN
         FirstOccurrences(
             IF /\ Contains(Lower(base), Lower(pair.term))
                /\ Contains(Lower(s), Lower(pair.term))
             THEN ReplaceFirst(s, pair.term, pair.synonyms)
             ELSE s,
             base, Tail(pairs))

RECURSIVE Concat(_)
Concat(ss) == IF ss = <<>> THEN <<>> ELSE Head(ss) \o Concat(Tail(ss))

\* s with every symbol that is the term, written as in the table, replaced
\* by the phrase (every term of the tables is one symbol)
EveryOccurrence(s, pair) ==
    Concat([i \in 1..Len(s) |->
               IF <<s[i]>> = pair.term THEN pair.synonyms ELSE <<s[i]>>])

\* Pair after pair, on the text built so far
RECURSIVE EveryOccurrences(_, _)
EveryOccurrences(s, pairs) ==
    IF pairs = <<>> THEN s
    ELSE EveryOccurrences(EveryOccurrence(s, Head(pairs)), Tail(pairs))

\* The priority terms of the type, if it has any, and the constant suffix
WithContext(s, t) ==
    (IF t \in TableTypes \cup PriorityOnlyTypes
     THEN s \o <<" ">> \o priority_terms(t) ELSE s)
      \o <<" ", "EODEN 2024 2023">>

C16_WitnessOtherCase ==
    /\ pc = "queries_returned"
    /\ prompt_type = "MARGE_BRUTE"
    /\ base_query = <<"Marge">>
    /\ enriched_query[1] = "Marge" /\ enriched_query[2] = " "

\* A term brought by the phrase of an earlier pair is replaced too
C16_WitnessCascade ==
    /\ pc = "queries_returned"
    /\ prompt_type = "CONCURRENCE"
    /\ base_query = <<"concurrence">>
    /\ Contains(enriched_query, synonym_mappings("CONCURRENCE")[3].synonyms)

-----------------------------------------------------------------------------
(* Properties of the system prompt *)

\* The text of a setting of default_settings, empty when it is unset
Setting(name) ==
    IF config.default_settings = None THEN <<>>
    ELSE IF config.default_settings[name] = None THEN <<>>
         ELSE config.default_settings[name].str

SettingIsSet(name) ==
    config.default_settings # None /\ config.default_settings[name] # None

\* The prefix that matches the section the prompt definition was taken
\* from, told by the prompt text, which differs between the two sections
MatchingPrefix ==
    IF prepared.prompt_data.prompt.str = MainText
    THEN Setting("base_instruction")
    ELSE IF SettingIsSet("base_instruction_final")
         THEN Setting("base_instruction_final")
         ELSE Setting("base_instruction")

\* The instructions of the prompt definition that was taken
TakenInstructions ==
    IF prepared.prompt_data.instructions = None THEN <<>>
    ELSE prepared.prompt_data.instructions.str

\* C17: in both scripts the base instruction that prefixes the system
\* prompt matches the section the prompt definition was taken from:
\* base_instruction for prompts_config, base_instruction_final (or
\* base_instruction when unset) for prompts_config_final, for every
\* configuration, one with the key in both sections included.
C17_PrefixMatchesSection ==
    (pc = "prompt_returned" /\ prepared.kind = "prepared") =>
        prepared.system_prompt =
            IF TakenInstructions # <<>>
            THEN MatchingPrefix \o <<"\n", "\n">> \o TakenInstructions
            ELSE MatchingPrefix

\* The key is in both sections
KeyInBoth ==
    /\ prompt_key \in section_keys(config, "prompts_config")
    /\ prompt_key \in section_keys(config, "prompts_config_final")

\* The prefix matches the section whenever the key is in one section only
C17_UniqueKey == KeyInBoth \/ C17_PrefixMatchesSection

=============================================================================
